---- MODULE Spec2Model ----
(***************************************************************************)
(* Domain models of the surgical op-list agent                             *)
(* (src/src/oplist_agent/domain/models.py).                                *)
(*                                                                         *)
(* The module's classes are pydantic models.  Objects live in stores       *)
(* (sequences); the index of an object in its store is its identity, so    *)
(* that two containers naming the same index share one object.             *)
(*   evidence    EvidenceRef objects                                       *)
(*   artifacts   Artifact objects                                          *)
(*   itemStates  ItemState objects                                         *)
(*   cases       CaseState objects                                         *)
(*   result      outcome of the last call: the object it returned or the   *)
(*               ValidationError it raised                                 *)
(*   nops        number of calls made so far                               *)
(***************************************************************************)
EXTENDS Integers, Sequences, FiniteSets, TLC

VARIABLES evidence, artifacts, itemStates, cases, result, nops

vars == <<evidence, artifacts, itemStates, cases, result, nops>>

(***************************************************************************)
(* Bounds and input domains                                                *)
(***************************************************************************)
MaxOps == 3

\* (artifact_id, evidence_id, chunk_id) triples handed to EvidenceRef
RefIds == {<<"u-a", "u-b", "u-c">>, <<"u-b", "u-a", "u-a">>}
PageVals == {0, 1, 2}
OffsetVals == {-1, 0, 10, 20}

(***************************************************************************)
(* Text formatting, as str.format / f-strings render an int                *)
(***************************************************************************)
Digit(d) ==
    CASE d = 0 -> "0" [] d = 1 -> "1" [] d = 2 -> "2" [] d = 3 -> "3"
      [] d = 4 -> "4" [] d = 5 -> "5" [] d = 6 -> "6" [] d = 7 -> "7"
      [] d = 8 -> "8" [] d = 9 -> "9"

RECURSIVE NatToStr(_)
NatToStr(n) ==
    IF n < 10 THEN Digit(n) ELSE NatToStr(n \div 10) \o Digit(n % 10)

IntToStr(n) == IF n < 0 THEN "-" \o NatToStr(-n) ELSE NatToStr(n)

\* Python's `t in s` on strings
Contains(s, t) ==
    \E i \in 1..(Len(s) - Len(t) + 1) : SubSeq(s, i, i + Len(t) - 1) = t

(***************************************************************************)
(* Enumerations                                                            *)
(***************************************************************************)
ItemKey ==
    {"allergies", "blood_loss_risk", "number_bunits_available",
     "abx_prophylaxis_timing"}

ItemStatus == {"pending", "confirmed", "unknown", "conflict"}

(***************************************************************************)
(* Outcome of a call                                                       *)
(***************************************************************************)
NoArgs == [artifact_id |-> "", evidence_id |-> "", page |-> 0,
           chunk_id |-> "", start_offset |-> 0, end_offset |-> 0]

Returned(op, args, obj) ==
    [op |-> op, ok |-> TRUE, args |-> args, obj |-> obj, errors |-> {}]

Raised(op, args, errs) ==
    [op |-> op, ok |-> FALSE, args |-> args, obj |-> 0, errors |-> errs]

(***************************************************************************)
(* EvidenceRef                                                             *)
(***************************************************************************)
\* Field(ge=bound): one error per field whose constraint fails
GeError(field, value, bound) ==
    IF value >= bound
    THEN {}
    ELSE {[loc |-> field, type |-> "greater_than_equal",
           msg |-> "Input should be greater than or equal to "
                     \o IntToStr(bound)]}

EvidenceRefFieldErrorsFirstOnly(d) ==
    IF GeError("page", d.page, 1) # {}
    THEN GeError("page", d.page, 1)
    ELSE IF GeError("start_offset", d.start_offset, 0) # {}
         THEN GeError("start_offset", d.start_offset, 0)
         ELSE GeError("end_offset", d.end_offset, 0)

EvidenceRefFieldErrors(d) ==
    GeError("page", d.page, 1)
      \cup GeError("start_offset", d.start_offset, 0)
      \cup GeError("end_offset", d.end_offset, 0)

check_offset_strict(self) ==
    IF self.end_offset < self.start_offset
    THEN {[loc |-> "", type |-> "value_error",
           msg |-> "Value error, end_offset (" \o IntToStr(self.end_offset)
                     \o ") must be > start_offset ("
                     \o IntToStr(self.start_offset) \o ")"]}
    ELSE {}

\* the model validator, run on the constructed object (mode="after")
check_offset(self) ==
    IF self.end_offset <= self.start_offset
    THEN {[loc |-> "", type |-> "value_error",
           msg |-> "Value error, end_offset (" \o IntToStr(self.end_offset)
                     \o ") must be > start_offset ("
                     \o IntToStr(self.start_offset) \o ")"]}
    ELSE {}

\* errors of EvidenceRef(**d): the field constraints are all evaluated; the
\* after-validator runs only on an object whose fields validated
EvidenceRefErrors(d) ==
    IF EvidenceRefFieldErrors(d) # {}
    THEN EvidenceRefFieldErrors(d)
    ELSE check_offset(d)

EvidenceRefObjectSwapped(d) ==
    [artifact_id |-> d.artifact_id, evidence_id |-> d.evidence_id,
     page |-> d.page, chunk_id |-> d.chunk_id,
     start_offset |-> d.end_offset, end_offset |-> d.start_offset]

\* the object EvidenceRef(**d) returns when validation passes
EvidenceRefObject(d) ==
    [artifact_id |-> d.artifact_id, evidence_id |-> d.evidence_id,
     page |-> d.page, chunk_id |-> d.chunk_id,
     start_offset |-> d.start_offset, end_offset |-> d.end_offset]

RefArgs(ids, page, s, e) ==
    [artifact_id |-> ids[1], evidence_id |-> ids[2], page |-> page,
     chunk_id |-> ids[3], start_offset |-> s, end_offset |-> e]

\* ref = EvidenceRef(artifact_id=..., ..., end_offset=e)
NewEvidenceRef ==
    /\ nops < MaxOps
    /\ \E ids \in RefIds, page \in PageVals, s \in OffsetVals, e \in OffsetVals :
         LET d == RefArgs(ids, page, s, e)
             errs == EvidenceRefErrors(d)
         IN  IF errs = {}
             THEN /\ evidence' = Append(evidence, EvidenceRefObject(d))
                  /\ result' = Returned("EvidenceRef", d, Len(evidence) + 1)
             ELSE /\ evidence' = evidence
                  /\ result' = Raised("EvidenceRef", d, errs)
    /\ nops' = nops + 1
    /\ UNCHANGED <<artifacts, itemStates, cases>>

\* ref.<field> = v on a constructed object: the model config sets neither
\* frozen nor validate_assignment, so the attribute is stored as given
SetRefField(ref, field, v) ==
    CASE field = "page" -> [ref EXCEPT !.page = v]
      [] field = "start_offset" -> [ref EXCEPT !.start_offset = v]
      [] field = "end_offset" -> [ref EXCEPT !.end_offset = v]

AssignEvidenceRefField ==
    /\ nops < MaxOps
    /\ \E i \in 1..Len(evidence),
          field \in {"page", "start_offset", "end_offset"} :
         \E v \in (IF field = "page" THEN PageVals ELSE OffsetVals) :
            /\ evidence' = [evidence EXCEPT ![i] = SetRefField(@, field, v)]
            /\ result' = Returned("EvidenceRef.setattr", evidence[i], i)
    /\ nops' = nops + 1
    /\ UNCHANGED <<artifacts, itemStates, cases>>

(***************************************************************************)
(* Artifact                                                                *)
(***************************************************************************)
\* instants read from the clock, and timestamps a caller may pass
ClockVals == {1, 2}
ExplicitTimes ==
    {[t |-> 1, tzinfo |-> "none"], [t |-> 1, tzinfo |-> "UTC"],
     [t |-> 2, tzinfo |-> "+02:00"]}
Files == {<<"test.pdf", "application/pdf">>, <<"notes.txt", "text/plain">>}
\* an optional keyword argument: <<>> when omitted, <<v>> when passed
Optional(S) == {<<>>} \cup {<<v>> : v \in S}

\* datetime.now(timezone.utc), the clock reading t
utc_now_naive(t) == [t |-> t, tzinfo |-> "none"]
utc_now(t) == [t |-> t, tzinfo |-> "UTC"]

\* Artifact(**d): included defaults to True, created_at to utc_now()
ArtifactObject(d, t) ==
    [artifact_id |-> d.artifact_id, filename |-> d.filename,
     mime_type |-> d.mime_type,
     included |-> IF d.included = <<>> THEN TRUE ELSE d.included[1],
     created_at |-> IF d.created_at = <<>> THEN utc_now(t)
                    ELSE d.created_at[1]]

NewArtifact ==
    /\ nops < MaxOps
    /\ \E id \in {"u-a", "u-b"}, f \in Files, inc \in Optional(BOOLEAN),
          ts \in Optional(ExplicitTimes), t \in ClockVals :
         LET d == [artifact_id |-> id, filename |-> f[1], mime_type |-> f[2],
                   included |-> inc, created_at |-> ts]
         IN  /\ artifacts' = Append(artifacts, ArtifactObject(d, t))
             /\ result' = Returned("Artifact", d, Len(artifacts) + 1)
    /\ nops' = nops + 1
    /\ UNCHANGED <<evidence, itemStates, cases>>

\* artifact.included = b
SetIncludedToggle(a, b) == [a EXCEPT !.included = ~a.included]
SetIncludedValue(a, b) == [a EXCEPT !.included = b]

SetIncluded ==
    /\ nops < MaxOps
    /\ \E i \in 1..Len(artifacts), b \in BOOLEAN :
         /\ artifacts' = [artifacts EXCEPT ![i] = SetIncludedValue(@, b)]
         /\ result' = Returned("Artifact.setattr.included",
                               [before |-> artifacts[i], value |-> b], i)
    /\ nops' = nops + 1
    /\ UNCHANGED <<evidence, itemStates, cases>>

(***************************************************************************)
(* ItemState and the default item map                                      *)
(***************************************************************************)
KeyOrder ==
    <<"allergies", "blood_loss_risk", "number_bunits_available",
      "abx_prophylaxis_timing">>

KeyIndex(k) == CHOOSE i \in 1..Len(KeyOrder) : KeyOrder[i] = k

\* position of k among the keys K, in definition order
Rank(k, K) == Cardinality({j \in K : KeyIndex(j) <= KeyIndex(k)})

\* ItemState(status=..., evidence_refs=...)
ItemStateObject(status, refs) == [status |-> status, evidence_refs |-> refs]

\* ItemState(): status defaults to PENDING, evidence_refs to a new list
DefaultItemState == ItemStateObject("pending", <<>>)

\* default_items(): a new dict of one new ItemState() per key; n is the
\* number of ItemState objects that exist before the call, the new objects
\* take the identities n+1 .. n+4
default_items_shared(n) == [k \in ItemKey |-> n + 1]
default_items_partial(n) ==
    [k \in ItemKey \ {"abx_prophylaxis_timing"} |-> n + KeyIndex(k)]
default_items(n) == [k \in ItemKey |-> n + KeyIndex(k)]

DefaultItemObjects == [i \in 1..Len(KeyOrder) |-> DefaultItemState]

(***************************************************************************)
(* CaseState                                                               *)
(***************************************************************************)
UnknownKey == "unknown_key"
\* key sets of the items maps a caller or a stored document supplies
ExplicitKeySets ==
    {ItemKey, ItemKey \ {"abx_prophylaxis_timing"}, {"allergies"},
     ItemKey \cup {UnknownKey}}
ExplicitStatuses == {"pending", "confirmed"}

\* validation of items: dict[ItemKey, ItemState]: every key must be a member
\* of the enumeration; nothing compares the key set with the enumeration
ItemsErrors(keys) ==
    {[loc |-> "items." \o k, type |-> "enum",
      msg |-> "Input should be 'allergies', 'blood_loss_risk', "
                \o "'number_bunits_available' or 'abx_prophylaxis_timing'"] :
        k \in keys \ ItemKey}

\* the validated copy of a supplied map: the supplied keys, each with the
\* ItemState built for it
ItemsOf(keys, n) == [k \in keys |-> n + Rank(k, keys)]

CaseStateObject(case_id, items) ==
    [case_id |-> case_id, artifacts |-> <<>>, items |-> items]

\* CaseState(case_id=id): items comes from default_factory=default_items
NewCaseState ==
    /\ nops < MaxOps
    /\ \E id \in {"u-a", "u-b"} :
         /\ itemStates' = itemStates \o DefaultItemObjects
         /\ cases' = Append(cases,
                            CaseStateObject(id, default_items(Len(itemStates))))
         /\ result' = Returned("CaseState", [case_id |-> id, items |-> <<>>],
                               Len(cases) + 1)
    /\ nops' = nops + 1
    /\ UNCHANGED <<evidence, artifacts>>

\* CaseState(case_id=id, items={k: {"status": st} for k in keys}), as a
\* caller or a deserializer passes it
NewCaseStateWithItems ==
    /\ nops < MaxOps
    /\ \E id \in {"u-a"}, keys \in ExplicitKeySets, st \in ExplicitStatuses :
         LET d == [case_id |-> id, items |-> <<[keys |-> keys, status |-> st]>>]
             errs == ItemsErrors(keys)
         IN  IF errs = {}
             THEN /\ itemStates' = itemStates \o
                        [i \in 1..Cardinality(keys) |-> ItemStateObject(st, <<>>)]
                  /\ cases' = Append(cases,
                        CaseStateObject(id, ItemsOf(keys, Len(itemStates))))
                  /\ result' = Returned("CaseState", d, Len(cases) + 1)
             ELSE /\ UNCHANGED <<itemStates, cases>>
                  /\ result' = Raised("CaseState", d, errs)
    /\ nops' = nops + 1
    /\ UNCHANGED <<evidence, artifacts>>

\* case.artifacts.append(Artifact(artifact_id=id, filename=..., mime_type=...))
AddArtifact ==
    /\ nops < MaxOps
    /\ \E c \in 1..Len(cases), id \in {"u-a", "u-b"}, t \in ClockVals :
         LET d == [artifact_id |-> id, filename |-> "test.pdf",
                   mime_type |-> "application/pdf",
                   included |-> <<>>, created_at |-> <<>>]
         IN  /\ artifacts' = Append(artifacts, ArtifactObject(d, t))
             /\ cases' = [cases EXCEPT ![c].artifacts =
                                          Append(@, Len(artifacts) + 1)]
             /\ result' = Returned("artifacts.append", [case |-> c, key |-> ""],
                                   Len(artifacts) + 1)
    /\ nops' = nops + 1
    /\ UNCHANGED <<evidence, itemStates>>

\* case.items[k] = ItemState(status=st): a plain dict store, any key
SetItem ==
    /\ nops < MaxOps
    /\ \E c \in 1..Len(cases), k \in ItemKey \cup {UnknownKey},
          st \in ItemStatus :
         /\ itemStates' = Append(itemStates, ItemStateObject(st, <<>>))
         /\ cases' = [cases EXCEPT ![c].items =
                        [j \in (DOMAIN @) \cup {k} |->
                            IF j = k THEN Len(itemStates) + 1 ELSE @[j]]]
         /\ result' = Returned("items.setitem", [case |-> c, key |-> k],
                               Len(itemStates) + 1)
    /\ nops' = nops + 1
    /\ UNCHANGED <<evidence, artifacts>>

\* del case.items[k] (or case.items.pop(k)) for a key that is present
DelItem ==
    /\ nops < MaxOps
    /\ \E c \in 1..Len(cases) :
         \E k \in DOMAIN cases[c].items :
            /\ cases' = [cases EXCEPT ![c].items =
                            [j \in (DOMAIN @) \ {k} |-> @[j]]]
            /\ result' = Returned("items.delitem", [case |-> c, key |-> k], 0)
    /\ nops' = nops + 1
    /\ UNCHANGED <<evidence, artifacts, itemStates>>

\* case.items[k].status = st, on the object the map holds
SetStatus ==
    /\ nops < MaxOps
    /\ \E c \in 1..Len(cases), st \in ItemStatus :
         \E k \in DOMAIN cases[c].items :
            /\ itemStates' = [itemStates EXCEPT ![cases[c].items[k]].status = st]
            /\ result' = Returned("ItemState.setattr.status",
                                  [case |-> c, key |-> k], cases[c].items[k])
    /\ nops' = nops + 1
    /\ UNCHANGED <<evidence, artifacts, cases>>

\* case.items[k].evidence_refs.append(EvidenceRef(...)), a valid reference
AppendEvidence ==
    /\ nops < MaxOps
    /\ \E c \in 1..Len(cases) :
         \E k \in DOMAIN cases[c].items :
            LET d == RefArgs(<<"u-a", "u-b", "u-c">>, 1, 0, 10)
            IN  /\ EvidenceRefErrors(d) = {}
                /\ evidence' = Append(evidence, EvidenceRefObject(d))
                /\ itemStates' =
                     [itemStates EXCEPT ![cases[c].items[k]].evidence_refs =
                                            Append(@, Len(evidence) + 1)]
                /\ result' = Returned("evidence_refs.append",
                                      [case |-> c, key |-> k],
                                      cases[c].items[k])
    /\ nops' = nops + 1
    /\ UNCHANGED <<artifacts, cases>>

(***************************************************************************)
(* Specifications                                                          *)
(***************************************************************************)
Init ==
    /\ evidence = <<>>
    /\ artifacts = <<>>
    /\ itemStates = <<>>
    /\ cases = <<>>
    /\ result = Returned("import", NoArgs, 0)
    /\ nops = 0

NextRef == NewEvidenceRef \/ AssignEvidenceRefField

SpecRef == Init /\ [][NextRef]_vars

NextArtifact == NewArtifact \/ SetIncluded

SpecArtifact == Init /\ [][NextArtifact]_vars

NextCase ==
    \/ NewCaseState
    \/ NewCaseStateWithItems
    \/ AddArtifact
    \/ SetIncluded
    \/ SetItem
    \/ DelItem
    \/ SetStatus
    \/ AppendEvidence

SpecCase == Init /\ [][NextCase]_vars

(***************************************************************************)
(* Properties                                                              *)
(***************************************************************************)
LastRefArgs == result.args
LastIsNewRef == result.op = "EvidenceRef"

\* C1: for e > s >= 0 and page >= 1, EvidenceRef(...) succeeds and every
\* field of the object equals the value supplied.
C1_RoundTrip ==
    (/\ LastIsNewRef
     /\ LastRefArgs.end_offset > LastRefArgs.start_offset
     /\ LastRefArgs.start_offset >= 0
     /\ LastRefArgs.page >= 1)
    => /\ result.ok
       /\ result.obj \in 1..Len(evidence)
       /\ evidence[result.obj].artifact_id = LastRefArgs.artifact_id
       /\ evidence[result.obj].evidence_id = LastRefArgs.evidence_id
       /\ evidence[result.obj].page = LastRefArgs.page
       /\ evidence[result.obj].chunk_id = LastRefArgs.chunk_id
       /\ evidence[result.obj].start_offset = LastRefArgs.start_offset
       /\ evidence[result.obj].end_offset = LastRefArgs.end_offset

C1_Witness ==
    /\ LastIsNewRef
    /\ result.ok
    /\ LastRefArgs.start_offset = 10
    /\ LastRefArgs.end_offset = 20
    /\ LastRefArgs.page = 2

\* the message the span check is documented to report
SpanMessage(e, s) ==
    "end_offset (" \o IntToStr(e) \o ") must be > start_offset ("
      \o IntToStr(s) \o ")"

ReportsSpanMessage ==
    /\ ~result.ok
    /\ result.obj = 0
    /\ \E err \in result.errors :
         Contains(err.msg,
                  SpanMessage(LastRefArgs.end_offset, LastRefArgs.start_offset))

C9_RangeErrors ==
    (/\ LastIsNewRef
     /\ \/ LastRefArgs.page < 1
        \/ LastRefArgs.start_offset < 0
        \/ LastRefArgs.end_offset < 0)
    => /\ ~result.ok
       /\ result.obj = 0
       /\ LastRefArgs.page < 1
            => \E err \in result.errors : err.loc = "page"
       /\ LastRefArgs.start_offset < 0
            => \E err \in result.errors : err.loc = "start_offset"
       /\ LastRefArgs.end_offset < 0
            => \E err \in result.errors : err.loc = "end_offset"

C9_Witness ==
    /\ LastIsNewRef
    /\ ~result.ok
    /\ LastRefArgs.page = 0
    /\ LastRefArgs.start_offset = -1
    /\ LastRefArgs.end_offset = 10

\* C6: an EvidenceRef is immutable: every EvidenceRef in every reachable
\* state has end_offset > start_offset, start_offset >= 0 and page >= 1.
C6_Immutable ==
    \A i \in 1..Len(evidence) :
        /\ evidence[i].end_offset > evidence[i].start_offset
        /\ evidence[i].start_offset >= 0
        /\ evidence[i].page >= 1

\* C7: an Artifact constructed without created_at has a timezone-aware UTC
\* created_at.
C7_DefaultCreatedAtIsUtc ==
    (result.op = "Artifact" /\ result.args.created_at = <<>>)
    => /\ result.ok
       /\ artifacts[result.obj].created_at.tzinfo = "UTC"

C7_Witness ==
    /\ result.op = "Artifact"
    /\ result.args.created_at = <<>>
    /\ result.args.included = <<FALSE>>
    /\ Len(artifacts) = 2

\* C8: artifact.included = b changes included to b and no other field, and
\* a second assignment of the same b leaves the Artifact as it was.
C8_SetIncludedFrame ==
    result.op = "Artifact.setattr.included"
    => LET a == artifacts[result.obj]
           before == result.args.before
       IN  /\ a.included = result.args.value
           /\ a.artifact_id = before.artifact_id
           /\ a.filename = before.filename
           /\ a.mime_type = before.mime_type
           /\ a.created_at = before.created_at
           /\ before.included = result.args.value => a = before

\* the same value assigned twice in a row to the one Artifact there is
C8_Witness ==
    /\ result.op = "Artifact.setattr.included"
    /\ nops = 3
    /\ Len(artifacts) = 1
    /\ result.args.value = FALSE
    /\ result.args.before.included = FALSE

\* C3: CaseState(case_id=...) without items has exactly the ItemKey set as
\* its keys, each mapped to a default ItemState (pending, no evidence).
C3_DefaultItems ==
    (result.op = "CaseState" /\ result.args.items = <<>>)
    => /\ result.ok
       /\ DOMAIN cases[result.obj].items = ItemKey
       /\ Cardinality(DOMAIN cases[result.obj].items) = Cardinality(ItemKey)
       /\ \A k \in ItemKey :
            /\ itemStates[cases[result.obj].items[k]].status = "pending"
            /\ itemStates[cases[result.obj].items[k]].evidence_refs = <<>>

C3_Witness ==
    /\ result.op = "CaseState"
    /\ result.ok
    /\ result.args.items = <<>>
    /\ Len(cases) = 2

\* C4: CaseState(items=m) with a key set that is not exactly the ItemKey set
\* (a key missing, or a key outside the set) fails.
C4_RejectsWrongKeySet ==
    (/\ result.op = "CaseState"
     /\ result.args.items # <<>>
     /\ result.args.items[1].keys # ItemKey)
    => ~result.ok

\* C5: in every reachable state the key set of every CaseState's items is
\* exactly the ItemKey set.
C5_ItemsComplete ==
    \A c \in 1..Len(cases) : DOMAIN cases[c].items = ItemKey

\* the (case, key) entries that exist
Entries == {<<c, k>> \in (1..Len(cases)) \X (ItemKey \cup {UnknownKey}) :
               k \in DOMAIN cases[c].items}

C10_NoSharing ==
    \A x \in Entries, y \in Entries :
        x # y => cases[x[1]].items[x[2]] # cases[y[1]].items[y[2]]

\* entries present before and after a step whose ItemState reads differently
C10_Changed ==
    {x \in Entries :
        /\ x[2] \in DOMAIN cases'[x[1]].items
        /\ itemStates'[cases'[x[1]].items[x[2]]]
             # itemStates[cases[x[1]].items[x[2]]]}

====
